---- MODULE Spec2Model ----
(***************************************************************************)
(* The shareholders API of app/main.py: FastAPI route handlers over one    *)
(* MongoDB collection.  Every `await` of a store call is one atomic step;  *)
(* a handler with two store calls (create_shareholder, append_transaction) *)
(* is two steps, and steps of different requests interleave freely.        *)
(***************************************************************************)
EXTENDS Integers, Sequences, FiniteSets, TLC

VARIABLES
    collection, \* the documents of db.shareholders (main.py:20)
    nextOid,    \* ordinal of the next ObjectId insert_one generates
    pc,         \* per caller: "idle", or the await its handler is suspended at
    local,      \* per caller: the locals of its suspended handler
    last,       \* the latest step: request, collection before it, response
    appended,   \* the two latest append-transaction calls that updated
    deleted,    \* the _ids delete_one has removed
    baseline,   \* per _id: shares - sum(transactions) at insert
    writes      \* number of writing requests so far

vars == <<collection, nextOid, pc, local, last, appended, deleted,
          baseline, writes>>

(* ------------------------------ bounds -------------------------------- *)

\* number of ObjectIds the store hands out (number of inserts explored)
MaxIds == 2
\* number of requests explored that write to the store: creates, and the
\* append-transaction calls and partial updates that find their record
MaxWrites == 3

\* the requests in flight: two clients, each with at most one open request
Callers == {"c1", "c2"}

\* transaction values of append requests
Amounts == {-20, 30}

(* ------------------------------ values -------------------------------- *)

\* Python's None (also: find_one / find_one_and_update found nothing)
None == [null |-> TRUE]

\* a present value of an Optional field
Some(x) == [val |-> x]

\* bson.ObjectId values: the n-th id generated by the store
Oid(n) == [type |-> "ObjectId", v |-> n]

\* str values used as ids: the 24 hex digits of the n-th ObjectId, and
\* (v = 0) a string that is not 24 hex digits
HexStr(n) == [type |-> "str", v |-> n]
Malformed == HexStr(0)

\* str(oid): PyObjectId = Annotated[str, BeforeValidator(str)]
PyObjectId(oid) == HexStr(oid.v)

\* bson.ObjectId.is_valid(id)
is_valid(id) == id.type = "str" /\ id.v >= 1

\* bson.ObjectId(id) for a valid id (it raises InvalidId otherwise)
ObjectId(id) == Oid(id.v)

\* the path parameter {id} of a request
IdStrings == {HexStr(n) : n \in 1..MaxIds} \cup {Malformed}

\* ShareholderModel: bodies of POST /shareholders/
CreateBodies ==
    {[id |-> None, name |-> "Alice", shares |-> 100, transactions |-> <<100>>],
     [id |-> HexStr(1), name |-> "Bob", shares |-> 50, transactions |-> <<>>]}

\* UpdateShareholderModel: bodies of PUT /shareholders/{id}
UpdateBodies ==
    {[name |-> None, shares |-> None, transactions |-> None],
     [name |-> Some(""), shares |-> None, transactions |-> None],
     [name |-> None, shares |-> Some(0), transactions |-> Some(<<>>)],
     [name |-> Some("Carol"), shares |-> Some(70), transactions |-> None]}

RECURSIVE Sum(_)
Sum(s) == IF s = <<>> THEN 0 ELSE Head(s) + Sum(Tail(s))

(* --------------------------- the collection --------------------------- *)

\* collection.find_one({"_id": filter_id})
find_one(coll, filter_id) ==
    IF \E d \in coll : d._id = filter_id
    THEN CHOOSE d \in coll : d._id = filter_id
    ELSE None

\* an id generator that hands out the same id again
inserted_id_reused(next) == Oid(1)

\* the _id the store generates for an inserted document
inserted_id(next) == Oid(next)

\* collection.insert_one(document): the collection afterwards
insert_one(coll, document, oid) ==
    coll \cup {[_id |-> oid, name |-> document.name, shares |-> document.shares,
                transactions |-> document.transactions]}

\* a delete whose filter matches no document (the str id as the filter)
delete_one_unmatched(coll, filter_id) == coll

\* collection.delete_one({"_id": filter_id}): the collection afterwards
delete_one(coll, filter_id) ==
    IF find_one(coll, filter_id) = None THEN coll
    ELSE coll \ {find_one(coll, filter_id)}

\* a count that is never 1
deleted_count_zero(coll, filter_id) == 0

\* delete_result.deleted_count
deleted_count(coll, filter_id) ==
    IF find_one(coll, filter_id) = None THEN 0 ELSE 1

\* {"$set": fields} applied to one document
ApplySet(d, fields) ==
    [f \in DOMAIN d \cup DOMAIN fields |->
        IF f \in DOMAIN fields THEN fields[f] ELSE d[f]]

\* find_one_and_update(..., upsert=True): without a match a document is
\* inserted under the filter's _id
find_one_and_update_upsert(coll, filter_id, fields) ==
    IF find_one(coll, filter_id) = None
    THEN coll \cup {ApplySet([_id |-> filter_id, name |-> "", shares |-> 0,
                              transactions |-> <<>>], fields)}
    ELSE (coll \ {find_one(coll, filter_id)})
            \cup {ApplySet(find_one(coll, filter_id), fields)}

\* collection.find_one_and_update({"_id": filter_id}, {"$set": fields}):
\* the collection afterwards (no upsert: nothing is written without a match)
find_one_and_update(coll, filter_id, fields) ==
    IF find_one(coll, filter_id) = None THEN coll
    ELSE (coll \ {find_one(coll, filter_id)})
            \cup {ApplySet(find_one(coll, filter_id), fields)}

\* response_model=ShareholderModel, response_model_by_alias=False
ShareholderModel(d) ==
    [id |-> PyObjectId(d._id), name |-> d.name, shares |-> d.shares,
     transactions |-> d.transactions]

\* shareholder.model_dump(by_alias=True, exclude=["id"])
model_dump_exclude_id(shareholder) ==
    [name |-> shareholder.name, shares |-> shareholder.shares,
     transactions |-> shareholder.transactions]

\* the comprehension with `if v`: empty strings, zeros and empty lists are
\* dropped with the nulls
Falsy(k, x) ==
    \/ k = "name" /\ x = ""
    \/ k = "shares" /\ x = 0
    \/ k = "transactions" /\ x = <<>>
NonNullFields_truthy(shareholder) ==
    [k \in {f \in DOMAIN shareholder :
                shareholder[f] # None /\ ~Falsy(f, shareholder[f].val)} |->
        shareholder[k].val]

\* {k: v for k, v in shareholder.model_dump(by_alias=True).items()
\*  if v is not None}
NonNullFields(shareholder) ==
    [k \in {f \in DOMAIN shareholder : shareholder[f] # None} |->
        shareholder[k].val]

\* [transaction] + shareholder.get("transactions", [])
updated_transactions_prepend(shareholder, transaction) ==
    <<transaction>> \o shareholder.transactions

\* shareholder.get("transactions", []) + [transaction]
updated_transactions(shareholder, transaction) ==
    Append(shareholder.transactions, transaction)

\* shares replaced by the transaction instead of increased by it
updated_shares_replace(shareholder, transaction) == transaction

\* shareholder.get("shares", 0) + transaction
updated_shares(shareholder, transaction) ==
    shareholder.shares + transaction

(* ------------------------------ responses ----------------------------- *)

\* HTTPException(status_code=404, detail=f"Shareholder {id} not found")
NotFound(id) == [detail |-> id]

\* no response yet: the handler is suspended at its next store call
Pending == 0

\* the step just taken: the store call, the request it serves, the
\* collection before it, the response (status Pending while the handler is
\* suspended) and whether no other request's store call addressed the same
\* record since the handler began
Step(name, request, status, body, alone) ==
    [step |-> name, request |-> request, before |-> collection,
     status |-> status, body |-> body, solo |-> alone]

\* another request's store call on the record a suspended handler works on
Interfere(c, oid) ==
    [d \in Callers |->
        IF d # c /\ pc[d] # "idle" /\ local[d].oid = oid
        THEN [local[d] EXCEPT !.solo = FALSE]
        ELSE local[d]]

\* the two latest append-transaction calls that made their update call:
\* request, the record read and the status of the response
Logged(request, shareholder, status) ==
    [older |-> appended.newer,
     newer |-> [request |-> request, shareholder |-> shareholder,
                status |-> status]]

(* ------------------------------- Init --------------------------------- *)

Init ==
    /\ collection = {}
    /\ nextOid = 1
    /\ pc = [c \in Callers |-> "idle"]
    /\ local = [c \in Callers |-> None]
    /\ last = [step |-> "init", request |-> None, before |-> {},
               status |-> Pending, body |-> None, solo |-> TRUE]
    /\ appended = [older |-> None, newer |-> None]
    /\ deleted = {}
    /\ baseline = <<>>
    /\ writes = 0

\* a handler that raises before its first store call: ObjectId(id) on a
\* string that is no ObjectId raises InvalidId, a 500 response
RaiseInvalidId(request, name) ==
    /\ last' = Step(name, request, 500, None, TRUE)
    /\ UNCHANGED <<collection, nextOid, pc, local, appended, deleted,
                   baseline, writes>>

(* --------------------------- get_shareholder -------------------------- *)

get_shareholder(c, id) ==
    LET request == [op |-> "get", id |-> id] IN
    /\ pc[c] = "idle"
    /\ IF ~is_valid(id) THEN RaiseInvalidId(request, "get")
       ELSE LET shareholder == find_one(collection, ObjectId(id)) IN
            /\ last' = IF shareholder # None
                       THEN Step("get", request, 200,
                                 ShareholderModel(shareholder), TRUE)
                       ELSE Step("get", request, 404, NotFound(id), TRUE)
            /\ local' = Interfere(c, ObjectId(id))
            /\ UNCHANGED <<collection, nextOid, pc, appended, deleted,
                           baseline, writes>>

(* -------------------------- create_shareholder ------------------------ *)

\* new_shareholder = await collection.insert_one(...)
create_shareholder_insert(c, shareholder) ==
    LET request == [op |-> "create", shareholder |-> shareholder]
        oid == inserted_id(nextOid)
        document == model_dump_exclude_id(shareholder) IN
    /\ pc[c] = "idle"
    /\ nextOid <= MaxIds
    /\ writes < MaxWrites
    /\ collection' = insert_one(collection, document, oid)
    /\ nextOid' = nextOid + 1
    /\ writes' = writes + 1
    /\ pc' = [pc EXCEPT ![c] = "create_fetch"]
    /\ local' = [Interfere(c, oid) EXCEPT ![c] =
            [oid |-> oid, request |-> request, solo |-> TRUE]]
    /\ last' = Step("insert", request, Pending, None, TRUE)
    /\ baseline' = baseline @@
            (oid.v :> (document.shares - Sum(document.transactions)))
    /\ UNCHANGED <<appended, deleted>>

\* created_shareholder = await collection.find_one({"_id": inserted_id});
\* returning None fails the response model's validation, a 500 response
create_shareholder_fetch(c) ==
    LET L == local[c]
        created_shareholder == find_one(collection, L.oid) IN
    /\ pc[c] = "create_fetch"
    /\ last' = IF created_shareholder # None
               THEN Step("fetch", L.request, 201,
                         ShareholderModel(created_shareholder), L.solo)
               ELSE Step("fetch", L.request, 500, None, L.solo)
    /\ pc' = [pc EXCEPT ![c] = "idle"]
    /\ local' = [Interfere(c, L.oid) EXCEPT ![c] = None]
    /\ UNCHANGED <<collection, nextOid, appended, deleted, baseline, writes>>

(* -------------------------- delete_shareholder ------------------------ *)

delete_shareholder(c, id) ==
    LET request == [op |-> "delete", id |-> id] IN
    /\ pc[c] = "idle"
    /\ IF ~is_valid(id) THEN RaiseInvalidId(request, "delete")
       ELSE /\ collection' = delete_one(collection, ObjectId(id))
            /\ last' = IF deleted_count(collection, ObjectId(id)) = 1
                       THEN Step("delete", request, 204, None, TRUE)
                       ELSE Step("delete", request, 404, NotFound(id), TRUE)
            /\ deleted' = IF collection' # collection
                          THEN deleted \cup {ObjectId(id)} ELSE deleted
            /\ local' = Interfere(c, ObjectId(id))
            /\ UNCHANGED <<nextOid, pc, appended, baseline, writes>>

(* -------------------------- update_shareholder ------------------------ *)

update_shareholder(c, id, body) ==
    LET request == [op |-> "update", id |-> id, shareholder |-> body]
        shareholder == NonNullFields(body) IN
    /\ pc[c] = "idle"
    /\ IF Cardinality(DOMAIN shareholder) >= 1
       THEN IF ~is_valid(id) THEN RaiseInvalidId(request, "update")
            ELSE /\ writes < MaxWrites
                 /\ collection' =
                        find_one_and_update(collection, ObjectId(id), shareholder)
                 /\ LET update_result == find_one(collection', ObjectId(id)) IN
                    last' = IF update_result # None
                            THEN Step("update", request, 200,
                                      ShareholderModel(update_result), TRUE)
                            ELSE Step("update", request, 404,
                                      NotFound(id), TRUE)
                 /\ writes' = IF find_one(collection, ObjectId(id)) # None
                              THEN writes + 1 ELSE writes
                 /\ local' = Interfere(c, ObjectId(id))
                 /\ UNCHANGED <<nextOid, pc, appended, deleted, baseline>>
       ELSE \* collection.find_one({"_id": id}): the filter is the str id
            LET existing_shareholder == find_one(collection, id) IN
            /\ last' = IF existing_shareholder # None
                       THEN Step("update", request, 200,
                                 ShareholderModel(existing_shareholder), TRUE)
                       ELSE Step("update", request, 404, NotFound(id), TRUE)
            /\ local' = Interfere(c, id)
            /\ UNCHANGED <<collection, nextOid, pc, appended, deleted,
                           baseline, writes>>

(* -------------------------- append_transaction ------------------------ *)

\* shareholder = await collection.find_one({"_id": ObjectId(id)})
append_transaction_read(c, id, transaction) ==
    LET request == [op |-> "append", id |-> id, transaction |-> transaction] IN
    /\ pc[c] = "idle"
    /\ IF ~is_valid(id) THEN RaiseInvalidId(request, "append_read")
       ELSE LET shareholder == find_one(collection, ObjectId(id)) IN
            /\ writes < MaxWrites
            /\ writes' = IF shareholder # None THEN writes + 1 ELSE writes
            /\ IF shareholder = None
               THEN /\ last' = Step("append_read", request, 404,
                                    NotFound(id), TRUE)
                    /\ pc' = pc
                    /\ local' = Interfere(c, ObjectId(id))
               ELSE /\ last' = Step("append_read", request, Pending,
                                    None, TRUE)
                    /\ pc' = [pc EXCEPT ![c] = "append_update"]
                    /\ local' = [Interfere(c, ObjectId(id)) EXCEPT ![c] =
                            [oid |-> ObjectId(id), request |-> request,
                             shareholder |-> shareholder, solo |-> TRUE]]
            /\ UNCHANGED <<collection, nextOid, appended, deleted, baseline>>

\* update_result = await collection.find_one_and_update(...)
append_transaction_update(c) ==
    LET L == local[c]
        fields == [transactions |->
                        updated_transactions(L.shareholder, L.request.transaction),
                   shares |->
                        updated_shares(L.shareholder, L.request.transaction)] IN
    /\ pc[c] = "append_update"
    /\ collection' = find_one_and_update(collection, L.oid, fields)
    /\ LET update_result == find_one(collection', L.oid) IN
       IF update_result # None
       THEN /\ last' = Step("append_update", L.request, 200,
                            ShareholderModel(update_result), L.solo)
            /\ appended' = Logged(L.request, L.shareholder, 200)
       ELSE /\ last' = Step("append_update", L.request, 404,
                            NotFound(L.request.id), L.solo)
            /\ appended' = Logged(L.request, L.shareholder, 404)
    /\ pc' = [pc EXCEPT ![c] = "idle"]
    /\ local' = [Interfere(c, L.oid) EXCEPT ![c] = None]
    /\ UNCHANGED <<nextOid, deleted, baseline, writes>>

(* --------------------------- specifications --------------------------- *)

Next ==
    \/ \E c \in Callers, id \in IdStrings : get_shareholder(c, id)
    \/ \E c \in Callers, shareholder \in CreateBodies :
            create_shareholder_insert(c, shareholder)
    \/ \E c \in Callers : create_shareholder_fetch(c)
    \/ \E c \in Callers, id \in IdStrings : delete_shareholder(c, id)
    \/ \E c \in Callers, id \in IdStrings, body \in UpdateBodies :
            update_shareholder(c, id, body)
    \/ \E c \in Callers, id \in IdStrings, transaction \in Amounts :
            append_transaction_read(c, id, transaction)
    \/ \E c \in Callers : append_transaction_update(c)

Spec == Init /\ [][Next]_vars

\* executions without partial updates
NextNoUpdate ==
    \/ \E c \in Callers, id \in IdStrings : get_shareholder(c, id)
    \/ \E c \in Callers, shareholder \in CreateBodies :
            create_shareholder_insert(c, shareholder)
    \/ \E c \in Callers : create_shareholder_fetch(c)
    \/ \E c \in Callers, id \in IdStrings : delete_shareholder(c, id)
    \/ \E c \in Callers, id \in IdStrings, transaction \in Amounts :
            append_transaction_read(c, id, transaction)
    \/ \E c \in Callers : append_transaction_update(c)

SpecNoUpdate == Init /\ [][NextNoUpdate]_vars

(* ------------------------------- claims ------------------------------- *)

\* the record a request with path parameter id is about, in collection coll
Stored(coll, id) == IF is_valid(id) THEN find_one(coll, ObjectId(id)) ELSE None

\* the records of coll other than the one with _id oid
Others(coll, oid) == {d \in coll : d._id # oid}

Ids(coll) == {d._id : d \in coll}

IsPrefix(s, t) == Len(s) <= Len(t) /\ SubSeq(t, 1, Len(s)) = s

\* the record d with the transaction v appended and shares increased by v
Plus(d, v) ==
    [d EXCEPT !.transactions = Append(d.transactions, v), !.shares = d.shares + v]

\* C1: an append-transaction call on an existing record, with no other
\* request's store call on that record between its read and its update,
\* responds 200 with shares = stored shares before + v and transactions =
\* stored transactions before with v appended, and the stored record
\* afterwards is the returned one.
C1_AppendSingleCaller ==
    (last.step = "append_update" /\ last.solo) =>
        LET v == last.request.transaction
            before == Stored(last.before, last.request.id)
            after == Stored(collection, last.request.id) IN
        /\ before # None
        /\ after # None
        /\ last.status = 200
        /\ last.body.shares = before.shares + v
        /\ last.body.transactions = Append(before.transactions, v)
        /\ last.body.name = before.name
        /\ last.body.id = last.request.id
        /\ ShareholderModel(after) = last.body

\* the spec's scenario: [100] with shares 100, then transaction -20
C1_Witness ==
    /\ last.step = "append_update"
    /\ last.solo
    /\ last.status = 200
    /\ last.request.transaction = -20
    /\ last.body.shares = 80
    /\ last.body.transactions = <<100, -20>>
    /\ ShareholderModel(Stored(collection, last.request.id)) = last.body

\* C2: when two append-transaction calls on the same id both read the same
\* record S and both respond 200, the later update overwrites the earlier
\* one: the stored transactions are S.transactions with only the later
\* value v2 appended and the stored shares are S.shares + v2, which is not
\* S.shares + v1 + v2 (v1 # 0).
C2_LostUpdate ==
    (/\ last.step = "append_update"
     /\ last.status = 200
     /\ appended.older # None
     /\ appended.older.status = 200
     /\ appended.older.request.id = appended.newer.request.id
     /\ appended.older.shareholder = appended.newer.shareholder) =>
        LET S == appended.newer.shareholder
            v1 == appended.older.request.transaction
            v2 == appended.newer.request.transaction
            d == Stored(collection, last.request.id) IN
        /\ appended.newer.request = last.request
        /\ d.transactions = Append(S.transactions, v2)
        /\ d.shares = S.shares + v2
        /\ v1 # 0 => d.shares # S.shares + v1 + v2

\* both calls read S, the first wrote S + v1 and responded 200, the second
\* then wrote S + v2 over it and responded 200
C2_Witness ==
    /\ last.step = "append_update"
    /\ last.status = 200
    /\ ~last.solo
    /\ appended.older # None
    /\ appended.older.status = 200
    /\ appended.older.request.id = last.request.id
    /\ appended.older.shareholder = appended.newer.shareholder
    /\ appended.older.request.transaction # last.request.transaction
    /\ Stored(last.before, last.request.id) =
            Plus(appended.older.shareholder, appended.older.request.transaction)
    /\ Stored(collection, last.request.id) =
            Plus(appended.newer.shareholder, last.request.transaction)
    /\ Stored(collection, last.request.id).shares #
            appended.newer.shareholder.shares
                + appended.older.request.transaction + last.request.transaction

AllNull(body) == \A f \in DOMAIN body : body[f] = None

\* C3: a partial update with every field null, for the id of an existing
\* record, responds 200 with the record as stored and changes nothing; it
\* responds 404 only when no record with that id exists.
C3_EmptyUpdateReturnsRecord ==
    (last.step = "update" /\ AllNull(last.request.shareholder)) =>
        LET existing == Stored(last.before, last.request.id) IN
        /\ collection = last.before
        /\ existing # None =>
                last.status = 200 /\ last.body = ShareholderModel(existing)
        /\ last.status = 404 => existing = None

\* C4: delete responds 204 exactly when a record with the id exists, and
\* then removes that record and no other; a deleted id has no record ever
\* after, so a second delete and a get of it respond 404.
C4_DeleteExactlyWhenExists ==
    /\ last.step = "delete" =>
            LET existing == Stored(last.before, last.request.id) IN
            /\ last.status = 204 <=> existing # None
            /\ existing # None => collection = last.before \ {existing}
            /\ existing = None => collection = last.before
            /\ (existing = None /\ is_valid(last.request.id)) => last.status = 404
    /\ \A oid \in deleted : find_one(collection, oid) = None
    /\ (/\ last.step \in {"get", "delete"}
        /\ is_valid(last.request.id)
        /\ ObjectId(last.request.id) \in deleted
        /\ Stored(last.before, last.request.id) = None) => last.status = 404

\* the second delete of an id, after another record was created
C4_Witness ==
    /\ last.step = "delete"
    /\ last.status = 404
    /\ is_valid(last.request.id)
    /\ ObjectId(last.request.id) \in deleted
    /\ collection # {}

\* the fields of a create request's body that are stored
Submitted(d, shareholder) ==
    /\ d.name = shareholder.name
    /\ d.shares = shareholder.shares
    /\ d.transactions = shareholder.transactions

\* C5 as stated: every create responds 201 with the submitted name, shares
\* and transactions plus the new id.
C5_CreateAlwaysReturnsSubmitted ==
    last.step = "fetch" =>
        /\ last.status = 201
        /\ Submitted(last.body, last.request.shareholder)

\* C5 amended: create stores the submitted fields under a store-generated
\* id no stored record has (the body's id is ignored); when no other
\* request's store call addresses the new record between the insert and
\* the re-fetch it responds 201 with those fields plus the new id; and a
\* get of an id that has a record returns that record, under the same id.
C5_CreateThenGet ==
    /\ last.step = "insert" =>
            \E d \in collection :
                /\ d._id \notin Ids(last.before)
                /\ d._id \notin deleted
                /\ d._id \in {Oid(n) : n \in 1..MaxIds}
                /\ collection = last.before \cup {d}
                /\ Submitted(d, last.request.shareholder)
    /\ (last.step = "fetch" /\ last.solo) =>
            /\ last.status = 201
            /\ Submitted(last.body, last.request.shareholder)
            /\ is_valid(last.body.id)
            /\ Stored(collection, last.body.id) # None
            /\ ShareholderModel(Stored(collection, last.body.id)) = last.body
            /\ collection = last.before
    /\ (last.step = "get" /\ Stored(last.before, last.request.id) # None) =>
            /\ last.status = 200
            /\ last.body = ShareholderModel(Stored(last.before, last.request.id))
            /\ last.body.id = last.request.id
            /\ collection = last.before

\* a second record created while the first is stored, with an id in the
\* body that is the first record's id
C5_Witness ==
    /\ last.step = "fetch"
    /\ last.solo
    /\ last.status = 201
    /\ last.request.shareholder.id = HexStr(1)
    /\ last.body.id # HexStr(1)
    /\ Stored(collection, HexStr(1)) # None
    /\ Submitted(last.body, last.request.shareholder)

\* C6: a partial update with at least one non-null field, for the id of an
\* existing record, sets exactly the non-null fields to the submitted
\* values, leaves the id, the null fields and every other record unchanged
\* and responds 200 with the record as stored afterwards.
C6_PartialUpdateSetsNonNull ==
    (/\ last.step = "update"
     /\ ~AllNull(last.request.shareholder)
     /\ Stored(last.before, last.request.id) # None) =>
        LET body == last.request.shareholder
            oid == ObjectId(last.request.id)
            old == find_one(last.before, oid)
            new == find_one(collection, oid) IN
        /\ new # None
        /\ last.status = 200
        /\ last.body = ShareholderModel(new)
        /\ DOMAIN new = DOMAIN old
        /\ new._id = old._id
        /\ \A f \in DOMAIN body :
                new[f] = IF body[f] # None THEN body[f].val ELSE old[f]
        /\ Others(collection, oid) = Others(last.before, oid)

\* shares and transactions set to 0 and [], name null, another record stored
C6_Witness ==
    /\ last.step = "update"
    /\ last.status = 200
    /\ last.request.shareholder =
            [name |-> None, shares |-> Some(0), transactions |-> Some(<<>>)]
    /\ Stored(last.before, last.request.id).shares # 0
    /\ last.body.shares = 0
    /\ last.body.transactions = <<>>
    /\ last.body.name = Stored(last.before, last.request.id).name
    /\ Others(collection, ObjectId(last.request.id)) # {}

\* C7: without partial updates, every stored record has shares = baseline +
\* sum of transactions, baseline being shares - sum of transactions at its
\* creation, also when append-transaction calls interleave.
C7_SharesIsBaselinePlusSum ==
    \A d \in collection :
        /\ d._id.v \in DOMAIN baseline
        /\ d.shares = baseline[d._id.v] + Sum(d.transactions)

\* after a lost update, on a record with a nonzero baseline
C7_Witness ==
    /\ last.step = "append_update"
    /\ last.status = 200
    /\ ~last.solo
    /\ Stored(last.before, last.request.id) # appended.newer.shareholder
    /\ baseline[ObjectId(last.request.id).v] # 0
    /\ Stored(collection, last.request.id).shares # baseline[ObjectId(last.request.id).v]

\* C8: without partial updates, every write by append-transaction replaces
\* the stored transactions by a sequence that has the stored one as a
\* proper prefix.
C8_AppendOnly ==
    (last.step = "append_update" /\ last.status = 200) =>
        LET old == Stored(last.before, last.request.id).transactions
            new == Stored(collection, last.request.id).transactions IN
        /\ IsPrefix(old, new)
        /\ Len(old) < Len(new)

\* C9: an append-transaction call that finds no record at its read step, or
\* whose record is gone at its update step, responds 404 and writes
\* nothing; no record is created under its id, and a deleted record stays
\* absent.
C9_AppendNeverRecreates ==
    /\ (/\ last.step = "append_read"
        /\ is_valid(last.request.id)
        /\ Stored(last.before, last.request.id) = None) =>
            last.status = 404 /\ collection = last.before
    /\ (/\ last.step = "append_update"
        /\ Stored(last.before, last.request.id) = None) =>
            last.status = 404 /\ collection = last.before
    /\ last.step = "append_read" => collection = last.before
    /\ \A oid \in deleted : find_one(collection, oid) = None

\* the record was deleted between the call's read and its update
C9_Witness ==
    /\ last.step = "append_update"
    /\ last.status = 404
    /\ ~last.solo
    /\ ObjectId(last.request.id) \in deleted
    /\ appended.newer.shareholder # None
    /\ Stored(collection, last.request.id) = None

\* C10: a step that ends its request with 404 leaves the collection as it
\* was, and the read step before an append-transaction's 404 wrote nothing.
C10_NotFoundWritesNothing ==
    /\ last.status = 404 => collection = last.before
    /\ last.step = "append_read" => collection = last.before

\* a non-empty partial update for an id without a record, beside a record
C10_Witness ==
    /\ last.step = "update"
    /\ last.status = 404
    /\ ~AllNull(last.request.shareholder)
    /\ is_valid(last.request.id)
    /\ collection # {}

====
